---- MODULE Spec2Model ----
(***************************************************************************)
(* Course timetabling: the five-constraint fitness model and the two       *)
(* search engines (genetic.py, simulated_annealing.py) that share it.      *)
(*                                                                         *)
(* Courses, time slots and rooms are small integers.  A schedule is a      *)
(* Python dict course -> (time, room), modelled as a function whose        *)
(* DOMAIN is the dict's key set and whose values are pairs <<t, r>>.       *)
(* A course_details entry is a record; a missing 'students' key and the    *)
(* value 0 behave alike in the code (.get('students', 0)), as do a         *)
(* missing / falsy 'department' or 'instructor' (skipped by `if dept:`),   *)
(* so 0 stands for both.                                                   *)
(***************************************************************************)
EXTENDS Integers, Sequences, FiniteSets, TLC

VARIABLES
    data,        \* the problem instance handed to both constructors
    pc,          \* position of the engine at work in its constructor or run()
    heap,        \* the schedule dicts alive, by object identity
    ga,          \* the GeneticAlgorithm object and the locals of its run()
    sa,          \* the SimulatedAnnealing object and the locals of its run()
    individual,  \* a single call: the schedule(s) handed to fitness() / crossover()
    ga_eval,     \* a single call: what GeneticAlgorithm.fitness / crossover returned
    sa_eval      \* scoring: what SimulatedAnnealing.fitness computed

vars == <<data, pc, heap, ga, sa, individual, ga_eval, sa_eval>>

----------------------------------------------------------------------------
(* Bounds of the model *)

MaxStudents == 2
MaxCapacity == 2

AllCourses == {1, 2, 3}
AllTimes == {1, 2}
AllRooms == {1, 2}

----------------------------------------------------------------------------
(* Accumulation loops: total += f[x] for x in f *)

RECURSIVE SumFn(_)
SumFn(f) ==
    IF DOMAIN f = {} THEN 0
    ELSE LET x == CHOOSE y \in DOMAIN f : TRUE
         IN  f[x] + SumFn([y \in DOMAIN f \ {x} |-> f[y]])

(* Sum of a list of numbers *)
RECURSIVE SumSeq(_)
SumSeq(s) == IF s = <<>> THEN 0 ELSE Head(s) + SumSeq(Tail(s))

----------------------------------------------------------------------------
(* genetic.py: the constraint model of GeneticAlgorithm *)

PENALTIES == <<1000, 1000, 500, 1000, 1000>>

(* for t in set(times_assigned): count = times_assigned.count(t);          *)
(* if count > 1: conflict_count += count - 1                               *)
(* members: the courses whose times make up times_assigned                 *)
(* fault: a shared time slot counts once, however many courses share it *)
GA_time_conflicts_flag(ind, members) ==
    LET times_assigned == {ind[c][1] : c \in members}
    IN  SumFn([t \in times_assigned |->
                 LET count == Cardinality({c \in members : ind[c][1] = t})
                 IN  IF count > 1 THEN 1 ELSE 0])

GA_time_conflicts(ind, members) ==
    LET times_assigned == {ind[c][1] : c \in members}
    IN  SumFn([t \in times_assigned |->
                 LET count == Cardinality({c \in members : ind[c][1] = t})
                 IN  IF count > 1 THEN count - 1 ELSE 0])

(* fault: a slot counts as a conflict only from the third course on *)
GA_constraint1_late(ind) ==
    LET assignments == [s \in {ind[c] : c \in DOMAIN ind} |->
                           {c \in DOMAIN ind : ind[c] = s}]
        conflict_count ==
            SumFn([s \in DOMAIN assignments |->
                     IF Cardinality(assignments[s]) > 2
                     THEN Cardinality(assignments[s]) - 1 ELSE 0])
    IN  conflict_count * PENALTIES[1]

GA_constraint1(ind) ==
    LET assignments == [s \in {ind[c] : c \in DOMAIN ind} |->
                           {c \in DOMAIN ind : ind[c] = s}]
        conflict_count ==
            SumFn([s \in DOMAIN assignments |->
                     IF Cardinality(assignments[s]) > 1
                     THEN Cardinality(assignments[s]) - 1 ELSE 0])
    IN  conflict_count * PENALTIES[1]

(* fault: the overflow is added without the test room_cap < enrollment *)
GA_constraint2_unguarded(ind, course_details, room_capacities) ==
    SumFn([c \in DOMAIN ind |->
             LET enrollment == IF c \in DOMAIN course_details
                               THEN course_details[c].students ELSE 0
                 r == ind[c][2]
                 room_cap == IF r \in DOMAIN room_capacities
                             THEN room_capacities[r] ELSE 0
             IN  (enrollment - room_cap) * PENALTIES[2]])

GA_constraint2(ind, course_details, room_capacities) ==
    SumFn([c \in DOMAIN ind |->
             LET enrollment == IF c \in DOMAIN course_details
                               THEN course_details[c].students ELSE 0
                 r == ind[c][2]
                 room_cap == IF r \in DOMAIN room_capacities
                             THEN room_capacities[r] ELSE 0
             IN  IF room_cap < enrollment
                 THEN (enrollment - room_cap) * PENALTIES[2] ELSE 0])

GA_constraint3(ind, course_details) ==
    LET depts == {course_details[c].department : c \in DOMAIN course_details} \ {0}
        dept_courses == [d \in depts |->
                           {c \in DOMAIN course_details : course_details[c].department = d}]
        conflict_count ==
            SumFn([d \in depts |->
                     GA_time_conflicts(ind, dept_courses[d] \cap DOMAIN ind)])
    IN  conflict_count * PENALTIES[3]

GA_constraint4(ind, course_details) ==
    LET teachers == {course_details[c].instructor : c \in DOMAIN course_details} \ {0}
        teacher_courses == [p \in teachers |->
                           {c \in DOMAIN course_details : course_details[c].instructor = p}]
        conflict_count ==
            SumFn([p \in teachers |->
                     GA_time_conflicts(ind, teacher_courses[p] \cap DOMAIN ind)])
    IN  conflict_count * PENALTIES[4]

GA_constraint5(ind, course_conflicts) ==
    LET conflict_count ==
            SumFn([g \in DOMAIN course_conflicts |->
                     GA_time_conflicts(ind, course_conflicts[g] \cap DOMAIN ind)])
    IN  conflict_count * PENALTIES[5]

(* The five penalties as fitness() adds them up, in order *)
GA_costs(ind, d) ==
    << GA_constraint1(ind),
       GA_constraint2(ind, d.course_details, d.room_capacities),
       GA_constraint3(ind, d.course_details),
       GA_constraint4(ind, d.course_details),
       GA_constraint5(ind, d.course_conflicts) >>

GA_fitness(ind, d) == LET total_cost == SumSeq(GA_costs(ind, d)) IN 0 - total_cost

----------------------------------------------------------------------------
(* simulated_annealing.py: the constraint model of SimulatedAnnealing *)

SA_PENALTIES == <<1000, 1000, 500, 1000, 1000>>

SA_time_conflicts(ind, members) ==
    LET times_assigned == {ind[c][1] : c \in members}
    IN  SumFn([t \in times_assigned |->
                 LET count == Cardinality({c \in members : ind[c][1] = t})
                 IN  IF count > 1 THEN count - 1 ELSE 0])

SA_constraint1(ind) ==
    LET assignments == [s \in {ind[c] : c \in DOMAIN ind} |->
                           {c \in DOMAIN ind : ind[c] = s}]
        conflict_count ==
            SumFn([s \in DOMAIN assignments |->
                     IF Cardinality(assignments[s]) > 1
                     THEN Cardinality(assignments[s]) - 1 ELSE 0])
    IN  conflict_count * SA_PENALTIES[1]

SA_constraint2(ind, d) ==
    SumFn([c \in DOMAIN ind |->
             LET enrollment == IF c \in DOMAIN d.course_details
                               THEN d.course_details[c].students ELSE 0
                 r == ind[c][2]
                 room_cap == IF r \in DOMAIN d.room_capacities
                             THEN d.room_capacities[r] ELSE 0
             IN  IF room_cap < enrollment
                 THEN (enrollment - room_cap) * SA_PENALTIES[2] ELSE 0])

(* fault: the department term weighted like the instructor term *)
SA_constraint3_drift(ind, d) ==
    LET cd == d.course_details
        depts == {cd[c].department : c \in DOMAIN cd} \ {0}
        dept_courses == [x \in depts |-> {c \in DOMAIN cd : cd[c].department = x}]
        conflict_count ==
            SumFn([x \in depts |->
                     SA_time_conflicts(ind, dept_courses[x] \cap DOMAIN ind)])
    IN  conflict_count * SA_PENALTIES[4]

SA_constraint3(ind, d) ==
    LET cd == d.course_details
        depts == {cd[c].department : c \in DOMAIN cd} \ {0}
        dept_courses == [x \in depts |-> {c \in DOMAIN cd : cd[c].department = x}]
        conflict_count ==
            SumFn([x \in depts |->
                     SA_time_conflicts(ind, dept_courses[x] \cap DOMAIN ind)])
    IN  conflict_count * SA_PENALTIES[3]

SA_constraint4(ind, d) ==
    LET cd == d.course_details
        teachers == {cd[c].instructor : c \in DOMAIN cd} \ {0}
        teacher_courses == [p \in teachers |-> {c \in DOMAIN cd : cd[c].instructor = p}]
        conflict_count ==
            SumFn([p \in teachers |->
                     SA_time_conflicts(ind, teacher_courses[p] \cap DOMAIN ind)])
    IN  conflict_count * SA_PENALTIES[4]

SA_constraint5(ind, d) ==
    LET conflict_count ==
            SumFn([g \in DOMAIN d.course_conflicts |->
                     SA_time_conflicts(ind, d.course_conflicts[g] \cap DOMAIN ind)])
    IN  conflict_count * SA_PENALTIES[5]

SA_costs(ind, d) ==
    << SA_constraint1(ind), SA_constraint2(ind, d), SA_constraint3(ind, d),
       SA_constraint4(ind, d), SA_constraint5(ind, d) >>

SA_fitness(ind, d) == LET total_cost == SumSeq(SA_costs(ind, d)) IN 0 - total_cost

----------------------------------------------------------------------------
(* Values of the variables an engine or the scoring does not use (yet) *)

NotEvaluated == [done |-> FALSE, costs |-> <<>>, fitness |-> 0]

NoGA == [constructed |-> FALSE]

NoSA == [constructed |-> FALSE]

----------------------------------------------------------------------------
(* Scoring one schedule with both engines built from the same data, as      *)
(* performance_comparison.py does with ga.fitness(..) and sa.fitness(..).   *)

(* Dicts with keys among K and values in V *)
Dicts(K, V) == UNION {[S -> V] : S \in SUBSET K}

Details == [department : {0, 1}, students : {0, MaxStudents}, instructor : {0, 1}]

ConflictLists == {<<>>, <<{1, 2, 3}>>, <<{1, 2}, {2, 3}>>}

(* room 2 holds MaxCapacity students; room 1 is smaller or has no entry *)
CapacityTables ==
    {rc \in Dicts(AllRooms, 0..MaxCapacity) :
        /\ 2 \in DOMAIN rc /\ rc[2] = MaxCapacity
        /\ 1 \in DOMAIN rc => rc[1] < MaxCapacity}

FitInstances ==
    {[course_details |-> cd, courses |-> AllCourses, room_capacities |-> rc,
      rooms |-> AllRooms, times |-> AllTimes, course_conflicts |-> cc] :
        cd \in Dicts(AllCourses, Details), rc \in CapacityTables, cc \in ConflictLists}

FitSchedules == Dicts(AllCourses, AllTimes \X AllRooms)

FitInit ==
    /\ data \in FitInstances
    /\ individual \in FitSchedules
    /\ ga_eval = NotEvaluated
    /\ sa_eval = NotEvaluated
    /\ pc = "score"
    /\ heap = <<>>
    /\ ga = NoGA
    /\ sa = NoSA

GAFitness ==
    /\ pc = "score"
    /\ ~ga_eval.done
    /\ ga_eval' = [done |-> TRUE, costs |-> GA_costs(individual, data),
                   fitness |-> GA_fitness(individual, data)]
    /\ UNCHANGED <<data, pc, heap, ga, sa, individual, sa_eval>>

SAFitness ==
    /\ pc = "score"
    /\ ga_eval.done
    /\ ~sa_eval.done
    /\ sa_eval' = [done |-> TRUE, costs |-> SA_costs(individual, data),
                   fitness |-> SA_fitness(individual, data)]
    /\ UNCHANGED <<data, pc, heap, ga, sa, individual, ga_eval>>

FitNext ==
    \/ GAFitness
    \/ SAFitness

SpecFit == FitInit /\ [][FitNext]_vars

----------------------------------------------------------------------------
(* Python object identity.  heap is the sequence of the schedule dicts     *)
(* alive; a reference is an index into it and NoneRef is Python's None.    *)
(* Two references are aliases exactly when they are equal.  After every    *)
(* step the dicts no reference reaches are collected and the survivors     *)
(* renumbered in the order the roots list them.                            *)

NoneRef == 0

Max(S) == CHOOSE x \in S : \A y \in S : y <= x

(* the distinct references of `roots` (None left out) in the order of      *)
(* their first occurrence, appended to acc                                 *)
RECURSIVE Reached(_, _)
Reached(roots, acc) ==
    IF roots = <<>> THEN acc
    ELSE IF Head(roots) = NoneRef \/ \E k \in DOMAIN acc : acc[k] = Head(roots)
    THEN Reached(Tail(roots), acc)
    ELSE Reached(Tail(roots), Append(acc, Head(roots)))

(* renaming of the references in `roots` to 1..n, by first occurrence *)
Renaming(roots) ==
    LET order == Reached(roots, <<>>)
    IN  [id \in {order[k] : k \in DOMAIN order} \cup {NoneRef} |->
            IF id = NoneRef THEN NoneRef
            ELSE CHOOSE k \in DOMAIN order : order[k] = id]

Collect(h, roots) ==
    LET order == Reached(roots, <<>>)
    IN  [n \in DOMAIN order |-> h[order[n]]]

RenameAll(refs, ren) == [k \in DOMAIN refs |-> ren[refs[k]]]

----------------------------------------------------------------------------
(* Randomness.  random.random() < p can come out True unless p <= 0 and    *)
(* False unless p >= 1; probabilities are kept in percent.                 *)

RandomBelow(percent) ==
    {b \in BOOLEAN : (b => percent > 0) /\ (~b => percent < 100)}

(* create_individual: every course gets random.choice(times) and           *)
(* random.choice(rooms); random.choice of an empty list raises IndexError  *)
CanCreate(d) == d.courses = {} \/ (d.times # {} /\ d.rooms # {})

CreateIndividuals(d) == [d.courses -> d.times \X d.rooms]

----------------------------------------------------------------------------
(* genetic.py: GeneticAlgorithm *)

PopulationSizes == {0, 1, 2, 3}
MaxGenerations == 2
MutationRates == {0, 50, 100}
NegInf == -1000000000
tournament_size == 3

GARoots(g) == g.population \o g.selected \o g.next_generation \o <<g.best_individual>>

(* the object and heap after a step, unreachable dicts collected *)
GATidy(g, h) ==
    LET ren == Renaming(GARoots(g))
    IN  [ga |-> [g EXCEPT !.population = RenameAll(@, ren),
                          !.selected = RenameAll(@, ren),
                          !.next_generation = RenameAll(@, ren),
                          !.best_individual = ren[@]],
         heap |-> Collect(h, GARoots(g))]

(* __init__ *)
GANew(population_size, mutation_rate, generations, population) ==
    [constructed |-> TRUE,
     population_size |-> population_size,
     mutation_rate |-> mutation_rate,
     generations |-> generations,
     population |-> population,
     best_individual |-> NoneRef,
     best_fitness |-> NegInf,
     current_best_history |-> <<>>,
     gen |-> 0, fitnesses |-> <<>>, selected |-> <<>>, next_generation |-> <<>>, i |-> 0]

GAConstructWith(sizes, rates, budgets) ==
    /\ pc = "ga_new"
    /\ \E population_size \in sizes, mutation_rate \in rates, generations \in budgets :
          IF population_size > 0 /\ ~CanCreate(data)
          THEN /\ pc' = "config_error"
               /\ UNCHANGED <<ga, heap>>
          ELSE \E pop \in [1..population_size -> CreateIndividuals(data)] :
                 /\ heap' = pop
                 /\ ga' = GANew(population_size, mutation_rate, generations,
                                [k \in 1..population_size |-> k])
                 /\ pc' = "ga_run"
    /\ UNCHANGED <<data, sa, individual, ga_eval, sa_eval>>

GAConstruct == GAConstructWith(PopulationSizes, MutationRates, 0..MaxGenerations)

(* fitnesses.index(current_best): the first position holding the maximum *)
IndexOf(fitnesses, v) ==
    CHOOSE k \in DOMAIN fitnesses :
        fitnesses[k] = v /\ \A m \in 1..(k - 1) : fitnesses[m] # v

(* fault: the early stop never taken *)
StopEarly_never(best_fitness) == FALSE

(* line 40: if self.best_fitness == 0: break *)
StopEarly(best_fitness) == best_fitness = 0

(* run, lines 30-42: the loop test, the evaluation of one generation, the  *)
(* update of the best and the early stop                                   *)
GAEvaluate ==
    /\ pc = "ga_run"
    /\ IF ga.gen >= ga.generations
       THEN /\ pc' = "ga_return"
            /\ UNCHANGED <<ga, heap>>
       ELSE IF ga.population = <<>>
       THEN /\ pc' = "ga_raised"
            /\ UNCHANGED <<ga, heap>>
       ELSE LET fitnesses == [k \in DOMAIN ga.population |->
                                 GA_fitness(heap[ga.population[k]], data)]
                current_best == Max({fitnesses[k] : k \in DOMAIN fitnesses})
                improved == current_best > ga.best_fitness
                g == [ga EXCEPT
                        !.fitnesses = fitnesses,
                        !.current_best_history = Append(@, current_best),
                        !.best_fitness = IF improved THEN current_best ELSE @,
                        !.best_individual =
                            IF improved
                            THEN ga.population[IndexOf(fitnesses, current_best)]
                            ELSE @]
                t == GATidy(g, heap)
            IN  /\ ga' = t.ga
                /\ heap' = t.heap
                /\ pc' = IF StopEarly(g.best_fitness) THEN "ga_return" ELSE "ga_select"
    /\ UNCHANGED <<data, sa, individual, ga_eval, sa_eval>>

(* select_population: the positions a tournament of tournament_size        *)
(* distinct competitors can return: max() keeps the first of the fittest   *)
(* in the sample's order, and random.sample returns any order              *)
TournamentWinners(fitnesses) ==
    {w \in DOMAIN fitnesses :
        \E S \in SUBSET DOMAIN fitnesses :
            /\ Cardinality(S) = tournament_size
            /\ w \in S
            /\ \A k \in S : fitnesses[k] <= fitnesses[w]}

(* run, line 44: random.sample raises ValueError when the population has   *)
(* fewer than tournament_size members                                      *)
GASelect ==
    /\ pc = "ga_select"
    /\ IF ga.population_size > 0 /\ Len(ga.population) < tournament_size
       THEN /\ pc' = "ga_raised"
            /\ UNCHANGED <<ga, heap>>
       ELSE \E winners \in [1..ga.population_size -> TournamentWinners(ga.fitnesses)] :
              LET g == [ga EXCEPT
                          !.selected = [k \in 1..ga.population_size |->
                                           ga.population[winners[k]]],
                          !.fitnesses = <<>>,
                          !.i = 0]
                  t == GATidy(g, heap)
              IN  /\ ga' = t.ga
                  /\ heap' = t.heap
                  /\ pc' = "ga_cross"
    /\ UNCHANGED <<data, sa, individual, ga_eval, sa_eval>>

(* fault: a child takes its time from one parent and its room from the     *)
(* other                                                                    *)
crossover_mixing(h, parent1, parent2, courses, coins) ==
    [heap |-> h \o << [c \in courses |-> IF coins[c]
                                         THEN <<h[parent1][c][1], h[parent2][c][2]>>
                                         ELSE h[parent2][c]],
                      [c \in courses |-> IF coins[c]
                                         THEN <<h[parent2][c][1], h[parent1][c][2]>>
                                         ELSE h[parent1][c]] >>,
     child1 |-> Len(h) + 1,
     child2 |-> Len(h) + 2]

(* fault: the first child is parent1 itself, overwritten course by course *)
crossover_reusing_parent(h, parent1, parent2, courses, coins) ==
    [heap |-> Append([h EXCEPT ![parent1] =
                         [c \in courses |-> IF coins[c] THEN h[parent1][c] ELSE h[parent2][c]]],
                     [c \in courses |-> IF coins[c] THEN h[parent2][c] ELSE h[parent1][c]]),
     child1 |-> parent1,
     child2 |-> Len(h) + 1]

(* crossover: two fresh dicts filled course by course from the parents;    *)
(* coins[c] is random.random() < 0.5.  Gives the heap with the children    *)
(* and the references to them.                                             *)
crossover(h, parent1, parent2, courses, coins) ==
    [heap |-> h \o << [c \in courses |-> IF coins[c] THEN h[parent1][c] ELSE h[parent2][c]],
                      [c \in courses |-> IF coins[c] THEN h[parent2][c] ELSE h[parent1][c]] >>,
     child1 |-> Len(h) + 1,
     child2 |-> Len(h) + 2]

(* run, lines 47-51: one pass of the pairing loop *)
GACrossoverPair ==
    /\ pc = "ga_cross"
    /\ LET parent1 == ga.selected[ga.i + 1]
           parent2 == ga.selected[((ga.i + 1) % ga.population_size) + 1]
       IN
       \E born \in {crossover(heap, parent1, parent2, data.courses, coins) :
                        coins \in [data.courses -> RandomBelow(50)]} :
         LET h == born.heap
             last == ga.i + 2 >= ga.population_size
             g == [ga EXCEPT
                     !.next_generation = @ \o <<born.child1, born.child2>>,
                     !.i = IF last THEN 0 ELSE @ + 2,
                     !.selected = IF last THEN <<>> ELSE @]
             t == GATidy(g, h)
         IN  /\ ga' = t.ga
             /\ heap' = t.heap
             /\ pc' = IF last THEN "ga_mutate" ELSE "ga_cross"
    /\ UNCHANGED <<data, sa, individual, ga_eval, sa_eval>>

(* fault: the fresh pair is written as (room, time) *)
mutate_swapped(ind, flips, times, rooms) ==
    [c \in DOMAIN ind |-> IF flips[c] THEN <<rooms[c], times[c]>> ELSE ind[c]]

(* mutate: the dict is changed in place and returned; flips[c] is          *)
(* random.random() < mutation_rate, times[c] and rooms[c] the fresh draws  *)
mutate(ind, flips, times, rooms) ==
    [c \in DOMAIN ind |-> IF flips[c] THEN <<times[c], rooms[c]>> ELSE ind[c]]

(* run, line 53: one element of the list comprehension; after the last     *)
(* one the list becomes self.population and the next generation starts     *)
GAMutateChild ==
    /\ pc = "ga_mutate"
    /\ LET child == ga.next_generation[ga.i + 1]
       IN  \E mutated \in {mutate(heap[child], flips, times, rooms) :
                               flips \in [DOMAIN heap[child] -> RandomBelow(ga.mutation_rate)],
                               times \in [DOMAIN heap[child] -> data.times],
                               rooms \in [DOMAIN heap[child] -> data.rooms]} :
             LET h == [heap EXCEPT ![child] = mutated]
                 last == ga.i + 1 >= Len(ga.next_generation)
                 g == IF last
                      THEN [ga EXCEPT !.population = ga.next_generation,
                                      !.next_generation = <<>>,
                                      !.i = 0,
                                      !.gen = @ + 1]
                      ELSE [ga EXCEPT !.i = @ + 1]
                 t == GATidy(g, h)
             IN  /\ ga' = t.ga
                 /\ heap' = t.heap
                 /\ pc' = IF last THEN "ga_run" ELSE "ga_mutate"
    /\ UNCHANGED <<data, sa, individual, ga_eval, sa_eval>>

----------------------------------------------------------------------------
(* simulated_annealing.py: SimulatedAnnealing                              *)
(*                                                                         *)
(* Temperatures are the floats 2^e * 1e-10 and cooling rates the floats    *)
(* 2^-s, for which `temperature *= cooling_rate` is exact; the model keeps *)
(* the exponents e and s.  temperature <= 1e-10 is then e <= 0.            *)

MaxIter == 3
InitialTemperatures == {0, 2, 40}
CoolingRates == {1}

(* the greatest integer loss -delta for which math.exp(delta / temperature) *)
(* is still above 0.0.  exp(x) is 5e-324 down to x = -745.1332191019411    *)
(* and 0.0 below (x < -1075 ln 2), so the loss may reach                    *)
(* 745.1332191019411 * 1e-10 * 2^e, rounded down; that factor is           *)
(* 1342312675 / 2^54, rounded down.  A loss below 1 needs e < 24.  Holds   *)
(* for the exponents 0..54.                                                 *)
MaxLoss(e) == IF e < 24 THEN 0 ELSE 1342312675 \div (2 ^ (54 - e))

(* math.exp(delta / temperature) for delta <= 0, in percent: exactly 1.0   *)
(* at delta = 0, exactly 0.0 on underflow, strictly between otherwise      *)
ExpPercent(delta, e) ==
    IF delta = 0 THEN 100
    ELSE IF 0 - delta > MaxLoss(e) THEN 0
    ELSE 50

(* fault: a candidate that is not strictly better is left to the coin *)
Acceptances_coin(delta, e) ==
    IF delta > 0 THEN {TRUE} ELSE RandomBelow(50)

(* line 158: delta > 0 or random.random() < math.exp(delta / temperature) *)
Acceptances(delta, e) ==
    IF delta > 0 THEN {TRUE} ELSE RandomBelow(ExpPercent(delta, e))

SARoots(a) == <<a.self_current, a.current, a.candidate, a.best_individual>>

(* the dicts a GeneticAlgorithm object that is still referenced keeps      *)
(* alive; they come first in the heap, so its references stay as they are  *)
GAKept == IF ga.constructed THEN GARoots(ga) ELSE <<>>

(* the object and heap after a step, unreachable dicts collected *)
SATidy(a, h) ==
    LET roots == GAKept \o SARoots(a)
        ren == Renaming(roots)
    IN  [sa |-> [a EXCEPT !.self_current = ren[@],
                          !.current = ren[@],
                          !.candidate = ren[@],
                          !.best_individual = ren[@]],
         heap |-> Collect(h, roots)]

(* __init__ *)
SANew(initial_temperature, cooling_rate, max_iter, current) ==
    [constructed |-> TRUE,
     initial_temperature |-> initial_temperature,
     cooling_rate |-> cooling_rate,
     max_iter |-> max_iter,
     best_individual |-> NoneRef,
     best_fitness |-> NegInf,
     fitness_history |-> <<>>,
     self_current |-> current,
     current |-> NoneRef, current_fitness |-> 0, temperature |-> 0, i |-> 0,
     candidate |-> NoneRef, candidate_fitness |-> 0, delta |-> 0]

SAConstructWith(temperatures, rates, budgets) ==
    /\ pc = "sa_new"
    /\ \E initial_temperature \in temperatures, cooling_rate \in rates,
          max_iter \in budgets :
          IF ~CanCreate(data)
          THEN /\ pc' = "config_error"
               /\ UNCHANGED <<sa, heap>>
          ELSE \E ind \in CreateIndividuals(data) :
                 /\ heap' = Append(heap, ind)
                 /\ sa' = SANew(initial_temperature, cooling_rate, max_iter,
                                Len(heap) + 1)
                 /\ pc' = "sa_run"
    /\ UNCHANGED <<data, ga, individual, ga_eval, sa_eval>>

SAConstruct == SAConstructWith(InitialTemperatures, CoolingRates, 0..MaxIter)

(* run, lines 141-145 *)
SAStart ==
    /\ pc = "sa_run"
    /\ LET current_fitness == SA_fitness(heap[sa.self_current], data)
       IN  sa' = [sa EXCEPT !.current = sa.self_current,
                            !.current_fitness = current_fitness,
                            !.best_individual = sa.self_current,
                            !.best_fitness = current_fitness,
                            !.temperature = sa.initial_temperature,
                            !.i = 0]
    /\ pc' = "sa_cool"
    /\ UNCHANGED <<data, heap, ga, individual, ga_eval, sa_eval>>

(* fault: the freeze test reads the temperature before it is cooled *)
SACool_freeze_before_cooling ==
    /\ pc = "sa_cool"
    /\ IF sa.i >= sa.max_iter
       THEN /\ pc' = "sa_return"
            /\ UNCHANGED sa
       ELSE /\ sa' = [sa EXCEPT !.temperature = @ - sa.cooling_rate]
            /\ pc' = IF sa.temperature <= 0 THEN "sa_return" ELSE "sa_propose"
    /\ UNCHANGED <<data, heap, ga, individual, ga_eval, sa_eval>>

(* run, lines 147-151: the loop test, the cooling and the freeze test *)
SACool ==
    /\ pc = "sa_cool"
    /\ IF sa.i >= sa.max_iter
       THEN /\ pc' = "sa_return"
            /\ UNCHANGED sa
       ELSE /\ sa' = [sa EXCEPT !.temperature = @ - sa.cooling_rate]
            /\ pc' = IF sa'.temperature <= 0 THEN "sa_return" ELSE "sa_propose"
    /\ UNCHANGED <<data, heap, ga, individual, ga_eval, sa_eval>>

(* fault: the dict is reassigned in place, without the copy *)
neighbor_in_place(h, ind, course, new_time, new_room) ==
    [heap |-> [h EXCEPT ![ind] = [c \in DOMAIN h[ind] \cup {course} |->
                                    IF c = course THEN <<new_time, new_room>> ELSE h[ind][c]]],
     neighbor |-> ind]

(* neighbor: a copy of the dict with one course reassigned.  Gives the     *)
(* heap with the copy and the reference to it.                             *)
neighbor(h, ind, course, new_time, new_room) ==
    [heap |-> Append(h, [c \in DOMAIN h[ind] \cup {course} |->
                            IF c = course THEN <<new_time, new_room>> ELSE h[ind][c]]),
     neighbor |-> Len(h) + 1]

(* run, lines 153-155; random.choice(self.courses) raises IndexError when  *)
(* the instance has no course                                              *)
SAPropose ==
    /\ pc = "sa_propose"
    /\ IF data.courses = {} \/ data.times = {} \/ data.rooms = {}
       THEN /\ pc' = "sa_raised"
            /\ UNCHANGED <<sa, heap>>
       ELSE \E course \in data.courses, new_time \in data.times, new_room \in data.rooms :
              LET made == neighbor(heap, sa.current, course, new_time, new_room)
                  h == made.heap
                  candidate_fitness == SA_fitness(h[made.neighbor], data)
                  a == [sa EXCEPT !.candidate = made.neighbor,
                                  !.candidate_fitness = candidate_fitness,
                                  !.delta = candidate_fitness - sa.current_fitness]
                  t == SATidy(a, h)
              IN  /\ sa' = t.sa
                  /\ heap' = t.heap
                  /\ pc' = "sa_accept"
    /\ UNCHANGED <<data, ga, individual, ga_eval, sa_eval>>

(* run, lines 158-166: acceptance, the update of the best, the history *)
SAAccept ==
    /\ pc = "sa_accept"
    /\ \E accept \in Acceptances(sa.delta, sa.temperature) :
         LET current == IF accept THEN sa.candidate ELSE sa.current
             current_fitness == IF accept THEN sa.candidate_fitness ELSE sa.current_fitness
             improved == current_fitness > sa.best_fitness
             a == [sa EXCEPT
                     !.current = current,
                     !.current_fitness = current_fitness,
                     !.best_individual = IF improved THEN current ELSE @,
                     !.best_fitness = IF improved THEN current_fitness ELSE @,
                     !.fitness_history = Append(@, current_fitness),
                     !.candidate = NoneRef, !.candidate_fitness = 0, !.delta = 0,
                     !.i = @ + 1]
             t == SATidy(a, heap)
         IN  /\ sa' = t.sa
             /\ heap' = t.heap
    /\ pc' = "sa_cool"
    /\ UNCHANGED <<data, ga, individual, ga_eval, sa_eval>>

----------------------------------------------------------------------------
(* Problem instances *)

Course(department, students, instructor) ==
    [department |-> department, students |-> students, instructor |-> instructor]

(* three courses of 10 students, two time slots, one room of 100 seats,    *)
(* distinct departments and instructors, no conflict group                 *)
ThreeCoursesOneRoom ==
    [course_details |-> <<Course(1, 10, 1), Course(2, 10, 2), Course(3, 10, 3)>>,
     courses |-> {1, 2, 3},
     room_capacities |-> <<100>>,
     rooms |-> {1},
     times |-> {1, 2},
     course_conflicts |-> <<>>]

(* two courses, one time slot, a room of 2 seats and a room of 1 seat:     *)
(* the four schedules score 0 (rooms 1, 2), -1000 (both in room 1),        *)
(* -1000 (rooms 2, 1: one student too many) and -2000 (both in room 2)     *)
TwoCourses ==
    [course_details |-> <<Course(1, 2, 1), Course(2, 1, 2)>>,
     courses |-> {1, 2},
     room_capacities |-> <<2, 1>>,
     rooms |-> {1, 2},
     times |-> {1},
     course_conflicts |-> <<>>]

NoRooms == [TwoCourses EXCEPT !.rooms = {}, !.room_capacities = <<>>]

NoCourses == [TwoCourses EXCEPT !.courses = {}, !.course_details = <<>>,
                                !.course_conflicts = <<>>]

Instances == {TwoCourses, NoRooms, NoCourses}

----------------------------------------------------------------------------
(* One engine object, from its construction to the return of its run():    *)
(* a GeneticAlgorithm or a SimulatedAnnealing built on an instance, with   *)
(* any configuration of the sets above, and run.  run has returned at      *)
(* pc = "ga_return" / "sa_return" and has raised at "ga_raised" /          *)
(* "sa_raised".                                                            *)

Init ==
    /\ data \in Instances
    /\ pc \in {"ga_new", "sa_new"}
    /\ heap = <<>>
    /\ ga = NoGA
    /\ sa = NoSA
    /\ individual = <<>>
    /\ ga_eval = NotEvaluated
    /\ sa_eval = NotEvaluated

Next ==
    \/ GAConstruct
    \/ GAEvaluate
    \/ GASelect
    \/ GACrossoverPair
    \/ GAMutateChild
    \/ SAConstruct
    \/ SAStart
    \/ SACool
    \/ SAPropose
    \/ SAAccept

Spec == Init /\ [][Next]_vars

----------------------------------------------------------------------------
(* Both engines on the instance ThreeCoursesOneRoom, one after the other:  *)
(* a GeneticAlgorithm of three individuals given one generation and a     *)
(* mutation_rate of 0 (the draw of mutate, line 79, never succeeds) is     *)
(* built and run; once its run() has returned, a SimulatedAnnealing given  *)
(* one iteration is built on the same data and run.  The genetic engine    *)
(* object stays referenced, with its population and its best.             *)

OptimumInit ==
    /\ data = ThreeCoursesOneRoom
    /\ pc = "ga_new"
    /\ heap = <<>>
    /\ ga = NoGA
    /\ sa = NoSA
    /\ individual = <<>>
    /\ ga_eval = NotEvaluated
    /\ sa_eval = NotEvaluated

OptimumGAConstruct == GAConstructWith({3}, {0}, {1})

(* run, line 55: the best individual is returned and the caller goes on *)
OptimumGAReturns ==
    /\ pc = "ga_return"
    /\ pc' = "sa_new"
    /\ UNCHANGED <<data, heap, ga, sa, individual, ga_eval, sa_eval>>

OptimumSAConstruct == SAConstructWith({40}, CoolingRates, {1})

OptimumNext ==
    \/ OptimumGAConstruct
    \/ GAEvaluate
    \/ GASelect
    \/ GACrossoverPair
    \/ GAMutateChild
    \/ OptimumGAReturns
    \/ OptimumSAConstruct
    \/ SAStart
    \/ SACool
    \/ SAPropose
    \/ SAAccept

SpecOptimum == OptimumInit /\ [][OptimumNext]_vars

----------------------------------------------------------------------------
(* One call of GeneticAlgorithm.crossover on two parents of the population *)
(* (run, line 50).  heap holds the parents, as one dict when the tournament *)
(* selected the same individual twice and as two dicts otherwise;           *)
(* individual keeps the parents' contents as they were handed in, and       *)
(* ga_eval the pair of references the call returned.                        *)

CrossData == [TwoCourses EXCEPT !.times = AllTimes]

NotCalled == [done |-> FALSE, child1 |-> NoneRef, child2 |-> NoneRef]

CrossInit ==
    /\ data = CrossData
    /\ heap \in {<<p>> : p \in CreateIndividuals(CrossData)}
                \cup {<<p, q>> : p, q \in CreateIndividuals(CrossData)}
    /\ individual = heap
    /\ ga_eval = NotCalled
    /\ sa_eval = NotEvaluated
    /\ pc = "cross"
    /\ ga = NoGA
    /\ sa = NoSA

CrossoverCall ==
    /\ pc = "cross"
    /\ \E coins \in [data.courses -> RandomBelow(50)] :
          LET born == crossover(heap, 1, Len(heap), data.courses, coins)
          IN  /\ heap' = born.heap
              /\ ga_eval' = [done |-> TRUE, child1 |-> born.child1, child2 |-> born.child2]
    /\ pc' = "crossed"
    /\ UNCHANGED <<data, ga, sa, individual, sa_eval>>

CrossNext == CrossoverCall

SpecCross == CrossInit /\ [][CrossNext]_vars

----------------------------------------------------------------------------
(* Claims about the engines, checked under Spec *)

GARunning == pc \in {"ga_run", "ga_select", "ga_cross", "ga_mutate", "ga_return"}

SARunning == pc \in {"sa_cool", "sa_propose", "sa_accept", "sa_return"}

Last(seq) == seq[Len(seq)]

Range(seq) == {seq[k] : k \in DOMAIN seq}

(* the fitness of every member of the population the engine holds *)
PopulationFitness == {GA_fitness(heap[ga.population[k]], data) : k \in DOMAIN ga.population}

(* a step of GAEvaluate that scores a generation *)
ScoresGeneration ==
    /\ pc = "ga_run"
    /\ pc' \in {"ga_select", "ga_return"}
    /\ Len(ga'.current_best_history) = Len(ga.current_best_history) + 1

(* C4: when GeneticAlgorithm.run returns after at least one generation,    *)
(* the fitness of the returned best_individual, recomputed then, equals    *)
(* best_fitness; best_fitness is at least the fitness of every individual  *)
(* of every generation scored (each scoring leaves it at least as high as  *)
(* every member scored, and it never drops afterwards).                    *)
C4_GAReturnsBestOfAllGenerations ==
    /\ [](pc = "ga_return" /\ ga.current_best_history # <<>>
            => /\ ga.best_individual # NoneRef
               /\ GA_fitness(heap[ga.best_individual], data) = ga.best_fitness
               /\ \A k \in DOMAIN ga.current_best_history :
                     ga.current_best_history[k] <= ga.best_fitness)
    /\ [][ScoresGeneration => \A f \in PopulationFitness : f <= ga'.best_fitness]_vars
    /\ [][GARunning /\ GARunning' => ga.best_fitness <= ga'.best_fitness]_vars

(* run returned a best found in the first generation: every member of the  *)
(* final population is worse and the best is no longer in the population   *)
C4_Witness ==
    /\ pc = "ga_return"
    /\ Len(ga.current_best_history) = 2
    /\ ga.current_best_history[2] < ga.current_best_history[1]
    /\ ga.best_fitness = ga.current_best_history[1]
    /\ ga.best_individual \notin Range(ga.population)
    /\ ga.mutation_rate = 50

(* C5: when SimulatedAnnealing.run returns, the fitness of the returned    *)
(* best_individual, recomputed then, equals best_fitness, which is the     *)
(* maximum of the initial schedule's fitness and the entries of            *)
(* fitness_history; throughout the run best_fitness >= the current         *)
(* fitness, and best_fitness never decreases.                              *)
C5_SAReturnsBestOfTrajectory ==
    /\ [](pc = "sa_return"
            => /\ SA_fitness(heap[sa.best_individual], data) = sa.best_fitness
               /\ sa.best_fitness =
                     Max({SA_fitness(heap[sa.self_current], data)}
                            \cup Range(sa.fitness_history)))
    /\ [](SARunning => sa.best_fitness >= sa.current_fitness)
    /\ [][SARunning /\ SARunning' => sa.best_fitness <= sa'.best_fitness]_vars

(* run returned a best that is neither the initial nor the final schedule *)
C5_Witness ==
    /\ pc = "sa_return"
    /\ sa.best_individual # sa.current
    /\ sa.best_individual # sa.self_current
    /\ sa.best_fitness > sa.current_fitness
    /\ sa.best_fitness > SA_fitness(heap[sa.self_current], data)

(* C6: once the global best fitness is exactly 0 after a generation has    *)
(* been scored, run has stopped: it is at its return, no selection,        *)
(* crossover or mutation step follows, no further generation is scored     *)
(* (the scored generations are the completed ones plus this one), and the  *)
(* last entry of current_best_history is the best of the population that   *)
(* was just scored.                                                        *)
C6_StopsAtZero ==
    (GARunning /\ ga.best_fitness = 0)
        => /\ pc = "ga_return"
           /\ Len(ga.current_best_history) = ga.gen + 1
           /\ Last(ga.current_best_history) = Max(PopulationFitness)
           /\ Last(ga.current_best_history) = 0

(* a feasible schedule appeared in the second generation scored: run is   *)
(* at its return with one generation bred, not two                         *)
C6_Witness ==
    /\ pc = "ga_return"
    /\ ga.best_fitness = 0
    /\ ga.current_best_history = <<-1000, 0>>
    /\ ga.gen = 1

(* C7: run never fails once the engine is constructed: neither engine      *)
(* raises inside run, whatever the instance and the configuration.         *)
C7_RunNeverRaises == pc \notin {"ga_raised", "sa_raised"}

(* C9: every schedule an engine holds (population, parents, children,      *)
(* current, candidate, best) maps exactly the instance's courses, each to  *)
(* a (time, room) pair of the instance's times and rooms.                  *)
C9_SchedulesAreTotal ==
    \A id \in DOMAIN heap :
        /\ DOMAIN heap[id] = data.courses
        /\ \A c \in DOMAIN heap[id] : heap[id][c] \in data.times \X data.rooms

(* the genetic engine starts its third generation with a population bred  *)
(* and mutated twice, and a best schedule that is no longer a member       *)
C9_Witness ==
    /\ pc = "ga_run"
    /\ ga.gen = 2
    /\ ga.mutation_rate = 50
    /\ Len(ga.population) = 4
    /\ Len(heap) = 5
    /\ ga.best_fitness = -1000

(* C11: the population holds exactly population_size schedules after       *)
(* construction and after every generation bred (whenever run is at the    *)
(* head of its loop or at its return), for every population_size, odd      *)
(* ones included.                                                          *)
C11_PopulationSizeKept ==
    pc \in {"ga_run", "ga_return"} => Len(ga.population) = ga.population_size

(* an iteration of SimulatedAnnealing.run begins: the loop test passed *)
SAIterationBegins == pc = "sa_cool" /\ sa.i < sa.max_iter

(* nothing of the search moved: no neighbor made, nothing scored, accepted *)
(* or recorded                                                             *)
SANothingProposed ==
    /\ heap' = heap
    /\ sa'.candidate = NoneRef
    /\ sa'.current = sa.current
    /\ sa'.current_fitness = sa.current_fitness
    /\ sa'.best_individual = sa.best_individual
    /\ sa'.best_fitness = sa.best_fitness
    /\ sa'.fitness_history = sa.fitness_history

(* C13: every iteration of SimulatedAnnealing.run cools first; if the      *)
(* temperature is then at the freeze floor (exponent <= 0, i.e. <= 1e-10)  *)
(* the run stops in that iteration with no neighbor proposed, scored or    *)
(* accepted and nothing appended to fitness_history; so every proposal and *)
(* acceptance test sees a temperature above the floor; and every iteration *)
(* that does not stop appends exactly one entry, the current fitness,      *)
(* accepted or not (the history is as long as the iterations completed).   *)
C13_CoolsThenFreezes ==
    /\ [][SAIterationBegins =>
             /\ sa'.temperature = sa.temperature - sa.cooling_rate
             /\ SANothingProposed
             /\ pc' = IF sa'.temperature <= 0 THEN "sa_return" ELSE "sa_propose"]_vars
    /\ [](pc \in {"sa_propose", "sa_accept"} => sa.temperature > 0)
    /\ [][pc = "sa_propose" => sa'.fitness_history = sa.fitness_history]_vars
    /\ [][pc = "sa_accept" =>
             /\ sa'.fitness_history = Append(sa.fitness_history, sa'.current_fitness)
             /\ sa'.i = sa.i + 1]_vars
    /\ [](SARunning => Len(sa.fitness_history) = sa.i)

(* the run froze in its second iteration, before the budget was used up:   *)
(* one entry was appended by the first iteration and none by the second    *)
C13_Witness ==
    /\ pc = "sa_return"
    /\ sa.temperature = 0
    /\ sa.i = 1
    /\ sa.max_iter > 1
    /\ Len(sa.fitness_history) = 1

(* the step made the candidate the current schedule *)
SAAccepted ==
    /\ heap'[sa'.current] = heap[sa.candidate]
    /\ sa'.current_fitness = sa.candidate_fitness

(* the step left the current schedule and its fitness as they were *)
SARejected ==
    /\ heap'[sa'.current] = heap[sa.current]
    /\ sa'.current_fitness = sa.current_fitness

(* C14: in every iteration that reaches the acceptance test, delta is the  *)
(* candidate's fitness minus the current one; a candidate with delta > 0   *)
(* or delta = 0 is always accepted, so only one with delta < 0 can be      *)
(* rejected, and a rejection leaves the current schedule and the current   *)
(* fitness unchanged.                                                      *)
C14_AcceptanceRule ==
    /\ [](pc = "sa_accept" => sa.delta = sa.candidate_fitness - sa.current_fitness)
    /\ [][pc = "sa_accept" =>
             /\ SAAccepted \/ SARejected
             /\ sa.delta >= 0 => SAAccepted]_vars

(* the first iteration accepted a different schedule of the same fitness   *)
(* as the initial one (delta = 0)                                          *)
C14_Witness ==
    /\ pc = "sa_cool"
    /\ sa.i = 1
    /\ sa.fitness_history = <<-1000>>
    /\ SA_fitness(heap[sa.self_current], data) = -1000
    /\ heap[sa.current] # heap[sa.self_current]

----------------------------------------------------------------------------
(* Claims about the instance ThreeCoursesOneRoom, checked under SpecOptimum *)

(* C10: on ThreeCoursesOneRoom no schedule scores above -1000 with either  *)
(* engine's fitness (stated of the instance as an engine is about to be    *)
(* built on it), so no engine ever holds a best above -1000; both engines  *)
(* reach exactly -1000 (the witness).                                      *)
C10_OptimumIsMinus1000 ==
    /\ pc \in {"ga_new", "sa_new"} =>
          \A sch \in CreateIndividuals(data) :
              GA_fitness(sch, data) <= -1000 /\ SA_fitness(sch, data) <= -1000
    /\ ga.constructed => ga.best_fitness <= -1000
    /\ sa.constructed => sa.best_fitness <= -1000

(* GeneticAlgorithm.run has returned a schedule scoring -1000 as its best, *)
(* and SimulatedAnnealing.run, started from a schedule scoring -2000, has  *)
(* moved to one scoring -1000 and returns it as its best                   *)
C10_Witness ==
    /\ pc = "sa_return"
    /\ data = ThreeCoursesOneRoom
    /\ ga.constructed
    /\ ga.gen = 1
    /\ ga.current_best_history = <<-1000>>
    /\ ga.best_fitness = -1000
    /\ GA_fitness(heap[ga.best_individual], data) = -1000
    /\ sa.constructed
    /\ SA_fitness(heap[sa.self_current], data) = -2000
    /\ sa.fitness_history = <<-1000>>
    /\ sa.best_fitness = -1000
    /\ SA_fitness(heap[sa.best_individual], data) = -1000

----------------------------------------------------------------------------
(* Claims about the constraint model, checked under SpecFit *)

BothEvaluated == ga_eval.done /\ sa_eval.done

AllZero(costs) == \A k \in 1..5 : costs[k] = 0

FitnessSign(ev) == ev.done => /\ ev.fitness <= 0
                              /\ (ev.fitness = 0 <=> AllZero(ev.costs))

(* C1: for every schedule and instance, fitness <= 0, and fitness = 0      *)
(* exactly when each of the five constraint penalties is 0 (both engines). *)
C1_FitnessNonPositive == FitnessSign(ga_eval) /\ FitnessSign(sa_eval)

(* a feasible total schedule of an instance that has departments,          *)
(* instructors, enrollments and conflict groups has been scored 0          *)
C1_Witness ==
    /\ BothEvaluated
    /\ ga_eval.fitness = 0
    /\ DOMAIN individual = AllCourses
    /\ DOMAIN data.course_details = AllCourses
    /\ \E c \in AllCourses : data.course_details[c].students = MaxStudents
    /\ Cardinality({c \in AllCourses : data.course_details[c].department = 1}) = 2
    /\ Cardinality({c \in AllCourses : data.course_details[c].instructor = 1}) = 2
    /\ Len(data.course_conflicts) = 2

(* The penalty terms as the specification's table states them *)
Excess(n) == IF n > 1 THEN n - 1 ELSE 0

Enrolled(d, c) == IF c \in DOMAIN d.course_details THEN d.course_details[c].students ELSE 0

Capacity(d, r) == IF r \in DOMAIN d.room_capacities THEN d.room_capacities[r] ELSE 0

Max0(n) == IF n > 0 THEN n ELSE 0

(* courses of the schedule among `members` that sit at time t *)
AtTime(ind, members, t) == Cardinality({c \in members \cap DOMAIN ind : ind[c][1] = t})

Table1(ind) ==
    SumFn([s \in AllTimes \X AllRooms |->
             Excess(Cardinality({c \in DOMAIN ind : ind[c] = s})) * 1000])

Table2(ind, d) ==
    SumFn([c \in DOMAIN ind |-> Max0(Enrolled(d, c) - Capacity(d, ind[c][2])) * 1000])

DepartmentsOf(d) ==
    {d.course_details[c].department : c \in DOMAIN d.course_details} \ {0}

InstructorsOf(d) ==
    {d.course_details[c].instructor : c \in DOMAIN d.course_details} \ {0}

Table3(ind, d) ==
    SumFn([x \in DepartmentsOf(d) \X AllTimes |->
             Excess(AtTime(ind, {c \in DOMAIN d.course_details :
                                   d.course_details[c].department = x[1]}, x[2])) * 500])

Table4(ind, d) ==
    SumFn([x \in InstructorsOf(d) \X AllTimes |->
             Excess(AtTime(ind, {c \in DOMAIN d.course_details :
                                   d.course_details[c].instructor = x[1]}, x[2])) * 1000])

Table5(ind, d) ==
    SumFn([x \in (DOMAIN d.course_conflicts) \X AllTimes |->
             Excess(AtTime(ind, d.course_conflicts[x[1]], x[2])) * 1000])

TableFitness(ind, d) ==
    0 - (Table1(ind) + Table2(ind, d) + Table3(ind, d) + Table4(ind, d) + Table5(ind, d))

(* C2: fitness is the negated sum of the five weighted penalty terms of    *)
(* the table, weights 1000, 1000, 500, 1000, 1000 (both engines).          *)
C2_FitnessIsWeightedSum ==
    /\ ga_eval.done => ga_eval.fitness = TableFitness(individual, data)
    /\ sa_eval.done => sa_eval.fitness = TableFitness(individual, data)

(* all three courses share a slot, a department, an instructor and a       *)
(* conflict group, and two of them overflow their room: every term counts  *)
(* an excess of 2 or an overflow *)
C2_Witness ==
    /\ BothEvaluated
    /\ DOMAIN individual = AllCourses
    /\ \A c \in AllCourses : individual[c] = <<1, 1>>
    /\ \A k \in 1..5 : ga_eval.costs[k] >= 1000
    /\ ga_eval.costs[1] = 2000
    /\ ga_eval.costs[3] = 1000
    /\ ga_eval.costs[4] = 2000
    /\ ga_eval.costs[5] = 2000

(* C3: both engines, built from the same data, give every schedule the     *)
(* same fitness.                                                           *)
C3_EnginesScoreAlike == BothEvaluated => ga_eval.fitness = sa_eval.fitness

(* both engines scored an infeasible schedule that violates every          *)
(* constraint family *)
C3_Witness ==
    /\ BothEvaluated
    /\ \A k \in 1..5 : ga_eval.costs[k] > 0 /\ sa_eval.costs[k] > 0
    /\ ga_eval.costs[3] # ga_eval.costs[4]

(* a schedule without course c, and a conflict list whose group g lost c *)
Without(ind, c) == [x \in DOMAIN ind \ {c} |-> ind[x]]

GroupWithout(cc, g, c) == [cc EXCEPT ![g] = @ \ {c}]

MissingLookupsAddNothing(costs, costsOf(_, _)) ==
    /\ \A c \in DOMAIN individual \ DOMAIN data.course_details :
          \A k \in 2..4 : costs[k] = costsOf(Without(individual, c), data)[k]
    /\ \A c \in DOMAIN individual :
          individual[c][2] \notin DOMAIN data.room_capacities
              => costs[2] = costsOf(Without(individual, c), data)[2]
    /\ \A g \in DOMAIN data.course_conflicts :
          \A c \in data.course_conflicts[g] \ DOMAIN individual :
              costs[5] = costsOf(individual,
                                 [data EXCEPT !.course_conflicts = GroupWithout(@, g, c)])[5]

(* C8: a lookup that misses the attribute tables is a zero contribution:   *)
(* a course absent from course_details adds nothing to constraints 2, 3    *)
(* and 4, a room absent from room_capacities adds nothing to constraint 2, *)
(* a conflict-group member absent from the schedule adds nothing to        *)
(* constraint 5, and the evaluation completes.                             *)
C8_MissingLookupsAddNothing ==
    /\ ga_eval.done => MissingLookupsAddNothing(ga_eval.costs, GA_costs)
    /\ sa_eval.done => MissingLookupsAddNothing(sa_eval.costs, SA_costs)

----------------------------------------------------------------------------
(* Claims about crossover, checked under SpecCross *)

(* C12: each child returned by crossover assigns every course the pair     *)
(* that course has in parent1 or in parent2 (never one parent's time with  *)
(* the other's room), the two children take complementary parents for each *)
(* course, and neither parent is modified.                                 *)
C12_CrossoverClosure ==
    pc = "crossed" =>
        LET parent1 == individual[1]
            parent2 == individual[Len(individual)]
            child1 == heap[ga_eval.child1]
            child2 == heap[ga_eval.child2]
        IN  /\ DOMAIN child1 = data.courses
            /\ DOMAIN child2 = data.courses
            /\ \A c \in data.courses :
                  \/ child1[c] = parent1[c] /\ child2[c] = parent2[c]
                  \/ child1[c] = parent2[c] /\ child2[c] = parent1[c]
            /\ \A k \in DOMAIN individual : heap[k] = individual[k]

(* two parents that differ in time and room on both courses were crossed,  *)
(* the first child taking course 1 from parent1 and course 2 from parent2  *)
C12_Witness ==
    /\ pc = "crossed"
    /\ individual = << <<<<1, 1>>, <<1, 2>>>>, <<<<2, 2>>, <<2, 1>>>> >>
    /\ heap[ga_eval.child1] = <<<<1, 1>>, <<2, 1>>>>
    /\ heap[ga_eval.child2] = <<<<2, 2>>, <<1, 2>>>>

====
